---- MODULE Spec2Model ----
(***************************************************************************)
(* Verification model of the Pagos loan engine (src/utils/loan.ts) and of  *)
(* the payment mutations and summary of src/App.tsx.                       *)
(*                                                                         *)
(* Number representation.                                                  *)
(*  - Money is an integer number of cents (1 == 0.01 currency units), so   *)
(*    the 0.01 tolerance of the source is the integer 1.                   *)
(*  - A periodic rate is a dyadic multiple of the solver's upper bound     *)
(*    0.05: the record [whole |-> w, frac |-> <<b1,..,bk>>] stands for     *)
(*    0.05 * (w + b1/2 + ... + bk/2^k).  The bisection only ever halves    *)
(*    and averages, so every rate it produces is of this form, exactly.    *)
(*  - JavaScript doubles are modelled by exact real arithmetic.            *)
(*  - An optional field is a sequence: <<>> is undefined, <<v>> is v.      *)
(***************************************************************************)
EXTENDS Integers, Sequences, FiniteSets, TLC

VARIABLES
    simArgs, simRun, simSt, simRes,      \* simulateLoanBalance, two calls
    solveArgs, solveSt, solveRet,        \* calculateAmortizationRate
    dateArgs, dateSt,                    \* generatePaymentDates
    genArgs, genSt,                      \* generatePaymentSchedule
    loanDetails, payments,               \* the state of App
    hist                                 \* history of the last operations

appVars == <<loanDetails, payments, hist>>
genVars == <<genArgs, genSt>>
dateVars == <<dateArgs, dateSt>>
simVars == <<simArgs, simRun, simSt, simRes>>
solveVars == <<solveArgs, solveSt, solveRet>>
vars == <<simVars, solveVars, dateVars, genVars, appVars>>

----------------------------------------------------------------------------
(* Bounds of the model                                                     *)

MaxPrincipal == 40
MaxPayment == 40
MaxPeriods == 3
RateBits == 2
MaxSolveUnits == 2
MaxSolvePayment == 22
MaxTarget == 2
MaxCount == 5
LastYear == 2024
MaxGenUnits == 2
MaxGenPayUnits == 3
MaxGenCount == 4
MaxAppRows == 4

----------------------------------------------------------------------------
(* Generic helpers                                                         *)

None == <<>>
Some(v) == <<v>>
IsSet(o) == o # <<>>
Max(a, b) == IF a >= b THEN a ELSE b
Abs(a) == IF a < 0 THEN 0 - a ELSE a
Zeros(n) == [i \in 1..n |-> 0]
Pad(bits, n) == bits \o Zeros(n - Len(bits))

(* JavaScript Infinity: larger than every balance the model can produce.   *)
Infinity == 1000000000

(* Reciprocal of the unit of the rate representation: 1 / 0.05.            *)
RateUnitDen == 20

----------------------------------------------------------------------------
(* Dyadic numbers                                                          *)

Dy(w, bits) == [whole |-> w, frac |-> bits]
DyZero == Dy(0, <<>>)
DyOne == Dy(1, <<>>)

(* Fraction strings are processed eight bits at a time: chunk c of a      *)
(* string is the integer made of bits 8c-7 .. 8c, a short last chunk       *)
(* being filled with zero bits.                                            *)
ChunkBits == 8
ChunkBase == 2 ^ ChunkBits
Bit(bits, i) == IF i <= Len(bits) THEN bits[i] ELSE 0
ChunkCount(bits) == (Len(bits) + ChunkBits - 1) \div ChunkBits
ChunkValue(bits, c) ==
    LET o == ChunkBits * (c - 1)
    IN  128 * Bit(bits, o + 1) + 64 * Bit(bits, o + 2) + 32 * Bit(bits, o + 3)
        + 16 * Bit(bits, o + 4) + 8 * Bit(bits, o + 5) + 4 * Bit(bits, o + 6)
        + 2 * Bit(bits, o + 7) + Bit(bits, o + 8)
ChunkOf(v) ==
    <<(v \div 128) % 2, (v \div 64) % 2, (v \div 32) % 2, (v \div 16) % 2,
      (v \div 8) % 2, (v \div 4) % 2, (v \div 2) % 2, v % 2>>

RECURSIVE AddChunks(_, _, _, _, _)
(* Chunks c, c-1, ..., 1 of a and b added with the carry coming from the   *)
(* right; acc holds the sum bits of the chunks already added.              *)
AddChunks(a, b, c, carry, acc) ==
    IF c = 0 THEN <<carry, acc>>
    ELSE LET s == ChunkValue(a, c) + ChunkValue(b, c) + carry
         IN  AddChunks(a, b, c - 1, s \div ChunkBase,
                       ChunkOf(s % ChunkBase) \o acc)

(* Binary addition of two equally long fraction strings, least significant *)
(* bit last; the result is <<carry out, sum bits>>.                        *)
AddFrac(a, b, carry) ==
    LET r == AddChunks(a, b, ChunkCount(a), carry, <<>>)
    IN  <<r[1], SubSeq(r[2], 1, Len(a))>>

DyAdd(x, y) ==
    LET n == Max(Len(x.frac), Len(y.frac))
        r == AddFrac(Pad(x.frac, n), Pad(y.frac, n), 0)
    IN  Dy(x.whole + y.whole + r[1], r[2])

DyHalf(x) == Dy(x.whole \div 2, <<x.whole % 2>> \o x.frac)

(* Lexicographic order of two equally long fraction strings.               *)
BitsLE(a, b) ==
    \/ a = b
    \/ \E i \in 1..Len(a) :
          /\ a[i] < b[i]
          /\ \A j \in 1..(i - 1) : a[j] = b[j]

DyLE(x, y) ==
    LET n == Max(Len(x.frac), Len(y.frac))
    IN  \/ x.whole < y.whole
        \/ x.whole = y.whole /\ BitsLE(Pad(x.frac, n), Pad(y.frac, n))

RECURSIVE HornerFloorFrom(_, _, _, _)
(* floor(b * 0.(chunks 1..c) + h / 2^(8c)) for integers b and h: nested    *)
(* floors of a division compose, so each chunk is one floored division.    *)
HornerFloorFrom(b, bits, c, h) ==
    IF c = 0 THEN h
    ELSE HornerFloorFrom(b, bits, c - 1,
                         (b * ChunkValue(bits, c) + h) \div ChunkBase)

(* floor(b * 0.b1b2...bk) for an integer b.                                *)
HornerFloor(b, bits) == HornerFloorFrom(b, bits, ChunkCount(bits), 0)

(* floor(b * x) for an integer b and a dyadic x.                           *)
MulFloor(b, x) == b * x.whole + HornerFloor(b, x.frac)

RECURSIVE MulChunks(_, _, _, _, _)
(* Chunks c, c-1, ..., 1 of a times the natural k, with the carry coming   *)
(* from the right.                                                         *)
MulChunks(a, k, c, carry, acc) ==
    IF c = 0 THEN <<carry, acc>>
    ELSE LET s == ChunkValue(a, c) * k + carry
         IN  MulChunks(a, k, c - 1, s \div ChunkBase,
                       ChunkOf(s % ChunkBase) \o acc)

(* The fraction string a times the natural k: <<carry out, product bits>>. *)
MulFrac(a, k, carry) ==
    LET r == MulChunks(a, k, ChunkCount(a), carry, <<>>)
    IN  <<r[1], SubSeq(r[2], 1, Len(a))>>

DyMulInt(x, k) ==
    LET r == MulFrac(x.frac, k, 0) IN Dy(x.whole * k + r[1], r[2])

(* x / 2^8: the low eight bits of the whole part move into the fraction.   *)
DyShiftChunk(x) ==
    Dy(x.whole \div ChunkBase, ChunkOf(x.whole % ChunkBase) \o x.frac)

RECURSIVE MulBitsFrom(_, _, _, _)
(* x * 0.(chunks 1..c) + acc / 2^(8c) for dyadic x and acc, exactly.       *)
MulBitsFrom(x, bits, c, acc) ==
    IF c = 0 THEN acc
    ELSE MulBitsFrom(x, bits, c - 1,
                     DyShiftChunk(DyAdd(DyMulInt(x, ChunkValue(bits, c)), acc)))

(* x * 0.b1b2...bk for a dyadic x, exactly.                                *)
MulBits(x, bits) == MulBitsFrom(x, bits, ChunkCount(bits), DyZero)

(* x * y for a dyadic x and a dyadic y >= 0, exactly.                      *)
DyMul(x, y) == DyAdd(DyMulInt(x, y.whole), MulBits(x, y.frac))

(* The fraction string without its trailing zero bits.                     *)
TrimZeros(bits) ==
    LET ones == {i \in 1..Len(bits) : bits[i] # 0}
    IN  IF ones = {} THEN <<>>
        ELSE SubSeq(bits, 1, CHOOSE i \in ones : \A j \in ones : j <= i)

DyIsZero(x) == x.whole = 0 /\ TrimZeros(x.frac) = <<>>

(* Unrounded amounts of money: [num |-> x, exp |-> e] is x / 20^e cents,   *)
(* so that the product with a rate (a dyadic multiple of 1/20) is exact.   *)
Real(x, e) == [num |-> x, exp |-> e]
RealOfInt(n) == Real(Dy(n, <<>>), 0)
RealRaise(x, e) == Real(DyMulInt(x.num, RateUnitDen ^ (e - x.exp)), e)
RealTimesRate(x, rate) == Real(DyMul(x.num, rate), x.exp + 1)
RealAdd(x, y) ==
    LET e == Max(x.exp, y.exp)
    IN  Real(DyAdd(RealRaise(x, e).num, RealRaise(y, e).num), e)
RealSubInt(x, n) == RealAdd(x, RealOfInt(0 - n))
(* x < n for an integer n: the fraction bits of x.num are not negative.    *)
RealLessThanInt(x, n) == x.num.whole < n * (RateUnitDen ^ x.exp)

----------------------------------------------------------------------------
(* JavaScript Date, local calendar fields only: month is 0-based, and      *)
(* setDate / setMonth carry an overflowing day or month forward.           *)

IsLeap(y) == (y % 4 = 0 /\ y % 100 # 0) \/ y % 400 = 0

DaysInMonth(y, m) ==
    IF m = 1 THEN (IF IsLeap(y) THEN 29 ELSE 28)
    ELSE IF m \in {3, 5, 8, 10} THEN 30 ELSE 31

MkDate(y, m, d) == [year |-> y, month |-> m, day |-> d]

RECURSIVE NormalizeDate(_)
NormalizeDate(dt) ==
    IF dt.month > 11
    THEN NormalizeDate(MkDate(dt.year + 1, dt.month - 12, dt.day))
    ELSE IF dt.day > DaysInMonth(dt.year, dt.month)
    THEN NormalizeDate(MkDate(dt.year, dt.month + 1,
                              dt.day - DaysInMonth(dt.year, dt.month)))
    ELSE dt

setDate(dt, d) == NormalizeDate(MkDate(dt.year, dt.month, d))
setMonth(dt, m) == NormalizeDate(MkDate(dt.year, m, dt.day))
getDate(dt) == dt.day
getMonth(dt) == dt.month

DateLT(a, b) ==
    \/ a.year < b.year
    \/ a.year = b.year /\ a.month < b.month
    \/ a.year = b.year /\ a.month = b.month /\ a.day < b.day

----------------------------------------------------------------------------
(* src/utils/loan.ts                                                       *)

(* Mutant: day 30 in every month.                                          *)
getEOMPayDayAlways30(date) == 30

getEOMPayDay(date) == IF getMonth(date) = 1 THEN 28 ELSE 30

(* generatePaymentDates: lines 12-16, then the while loop.                 *)
DatesInit(count, firstPaymentDate) ==
    IF count <= 0 THEN [dates |-> <<>>, ret |-> TRUE]
    ELSE [dates |-> <<firstPaymentDate>>, ret |-> FALSE]

(* Mutant: the loop runs while dates.length <= count.                      *)
DatesBodyOneMore(st, count) ==
    IF ~(Len(st.dates) <= count) THEN [st EXCEPT !.ret = TRUE]
    ELSE LET lastDate == st.dates[Len(st.dates)]
             nextDate ==
                 IF getDate(lastDate) <= 15
                 THEN setDate(lastDate, getEOMPayDay(lastDate))
                 ELSE setMonth(setDate(lastDate, 15), getMonth(lastDate) + 1)
         IN  [st EXCEPT !.dates = Append(st.dates, nextDate)]

DatesBody(st, count) ==
    IF ~(Len(st.dates) < count) THEN [st EXCEPT !.ret = TRUE]
    ELSE LET lastDate == st.dates[Len(st.dates)]
             nextDate ==
                 IF getDate(lastDate) <= 15
                 THEN setDate(lastDate, getEOMPayDay(lastDate))
                 ELSE setMonth(setDate(lastDate, 15), getMonth(lastDate) + 1)
         IN  [st EXCEPT !.dates = Append(st.dates, nextDate)]

RECURSIVE DatesLoop(_, _)
DatesLoop(st, count) ==
    IF st.ret THEN st.dates ELSE DatesLoop(DatesBody(st, count), count)

generatePaymentDates(count, firstPaymentDate) ==
    DatesLoop(DatesInit(count, firstPaymentDate), count)

(* roundCents of the real number num/den cents: Math.round rounds half up. *)
roundCents(num, den) == (2 * num + den) \div (2 * den)

(* roundCents(balance * rate).  With rate = 0.05 * x the product is        *)
(* balance * x / 20 cents, and floor((y + 10) / 20) only depends on        *)
(* floor(y), so the fraction dropped by MulFloor cannot change the result. *)
InterestOf(balance, rate) == roundCents(MulFloor(balance, rate), RateUnitDen)

(* The for loop of simulateLoanBalance; ret is the returned value.         *)
SimInit(principal) == [balance |-> principal, i |-> 0, ret |-> None]

(* Mutant: the interest is added to the principal paid (sign slip).        *)
SimBodyAddsInterest(st, biweeklyRate, biweeklyPayment, periods) ==
    IF ~(st.i < periods) THEN [st EXCEPT !.ret = Some(st.balance)]
    ELSE LET interest == InterestOf(st.balance, biweeklyRate)
             principalPaid == roundCents(biweeklyPayment + interest, 1)
             balance == roundCents(st.balance - principalPaid, 1)
         IN  IF biweeklyPayment <= interest
             THEN [st EXCEPT !.ret = Some(Infinity)]
             ELSE IF balance < 0
             THEN [st EXCEPT !.balance = balance, !.ret = Some(balance)]
             ELSE [st EXCEPT !.balance = balance, !.i = st.i + 1]

(* Mutant: the unpayable test is strict (payment < interest).              *)
SimBodyStrictTest(st, biweeklyRate, biweeklyPayment, periods) ==
    IF ~(st.i < periods) THEN [st EXCEPT !.ret = Some(st.balance)]
    ELSE LET interest == InterestOf(st.balance, biweeklyRate)
             principalPaid == roundCents(biweeklyPayment - interest, 1)
             balance == roundCents(st.balance - principalPaid, 1)
         IN  IF biweeklyPayment < interest
             THEN [st EXCEPT !.ret = Some(Infinity)]
             ELSE IF balance < 0
             THEN [st EXCEPT !.balance = balance, !.ret = Some(balance)]
             ELSE [st EXCEPT !.balance = balance, !.i = st.i + 1]

(* Mutant: the loop runs one period too many (i <= periods).              *)
SimBodyOneMorePeriod(st, biweeklyRate, biweeklyPayment, periods) ==
    IF ~(st.i <= periods) THEN [st EXCEPT !.ret = Some(st.balance)]
    ELSE LET interest == InterestOf(st.balance, biweeklyRate)
             principalPaid == roundCents(biweeklyPayment - interest, 1)
             balance == roundCents(st.balance - principalPaid, 1)
         IN  IF biweeklyPayment <= interest
             THEN [st EXCEPT !.ret = Some(Infinity)]
             ELSE IF balance < 0
             THEN [st EXCEPT !.balance = balance, !.ret = Some(balance)]
             ELSE [st EXCEPT !.balance = balance, !.i = st.i + 1]

SimBody(st, biweeklyRate, biweeklyPayment, periods) ==
    IF ~(st.i < periods) THEN [st EXCEPT !.ret = Some(st.balance)]
    ELSE LET interest == InterestOf(st.balance, biweeklyRate)
             principalPaid == roundCents(biweeklyPayment - interest, 1)
             balance == roundCents(st.balance - principalPaid, 1)
         IN  IF biweeklyPayment <= interest
             THEN [st EXCEPT !.ret = Some(Infinity)]
             ELSE IF balance < 0
             THEN [st EXCEPT !.balance = balance, !.ret = Some(balance)]
             ELSE [st EXCEPT !.balance = balance, !.i = st.i + 1]

RECURSIVE SimLoop(_, _, _, _)
SimLoop(st, biweeklyRate, biweeklyPayment, periods) ==
    IF IsSet(st.ret) THEN st.ret[1]
    ELSE SimLoop(SimBody(st, biweeklyRate, biweeklyPayment, periods),
                 biweeklyRate, biweeklyPayment, periods)

simulateLoanBalance(principal, biweeklyRate, biweeklyPayment, periods) ==
    SimLoop(SimInit(principal), biweeklyRate, biweeklyPayment, periods)

(* The bisection of calculateAmortizationRate.  Rates are in units of 0.05, *)
(* so highRate = 0.05 is DyOne.                                            *)
SolverIterations == 100
PeriodsPerYear == 24

SolveInit ==
    [lowRate |-> DyZero, highRate |-> DyOne, midRate |-> DyZero,
     i |-> 0, exited |-> FALSE, converged |-> FALSE]

(* Mutant: an unpayable result moves the lower bound up.                   *)
SolveBodyUnpayableIsLow(st, params) ==
    IF ~(st.i < SolverIterations) THEN [st EXCEPT !.exited = TRUE]
    ELSE LET midRate == DyHalf(DyAdd(st.lowRate, st.highRate))
             finalBalance == simulateLoanBalance(params.amount, midRate,
                                 params.biweeklyPayment, params.paymentsCount)
         IN  IF Abs(finalBalance - params.targetBalance) < 1
             THEN [st EXCEPT !.midRate = midRate, !.exited = TRUE,
                             !.converged = TRUE]
             ELSE IF finalBalance > params.targetBalance /\ finalBalance # Infinity
             THEN [st EXCEPT !.midRate = midRate, !.highRate = midRate,
                             !.i = st.i + 1]
             ELSE [st EXCEPT !.midRate = midRate, !.lowRate = midRate,
                             !.i = st.i + 1]

(* One evaluation of the loop test and, if it passes, of the loop body.    *)
SolveBody(st, params) ==
    IF ~(st.i < SolverIterations) THEN [st EXCEPT !.exited = TRUE]
    ELSE LET midRate == DyHalf(DyAdd(st.lowRate, st.highRate))
             finalBalance == simulateLoanBalance(params.amount, midRate,
                                 params.biweeklyPayment, params.paymentsCount)
         IN  IF Abs(finalBalance - params.targetBalance) < 1
             THEN [st EXCEPT !.midRate = midRate, !.exited = TRUE,
                             !.converged = TRUE]
             ELSE IF finalBalance > params.targetBalance
             THEN [st EXCEPT !.midRate = midRate, !.highRate = midRate,
                             !.i = st.i + 1]
             ELSE [st EXCEPT !.midRate = midRate, !.lowRate = midRate,
                             !.i = st.i + 1]

RECURSIVE SolveLoop(_, _)
SolveLoop(st, params) ==
    IF st.exited THEN st ELSE SolveLoop(SolveBody(st, params), params)

(* annualRate = finalRate * 24 * 100, in percent.                          *)
AnnualOfBiweekly(finalRate) ==
    DyMulInt(finalRate, (PeriodsPerYear * 100) \div RateUnitDen)

(* Mutant: the annual rate counts 26 periods per year.                     *)
SolveResult26Periods(st) ==
    [annualRate |-> DyMulInt(st.midRate, (26 * 100) \div RateUnitDen),
     biweeklyRate |-> st.midRate]

(* Mutant: the lower bound is returned instead of the last midpoint.       *)
SolveResultLow(st) ==
    [annualRate |-> AnnualOfBiweekly(st.lowRate), biweeklyRate |-> st.lowRate]

SolveResult(st) ==
    LET finalRate == st.midRate
    IN  [annualRate |-> AnnualOfBiweekly(finalRate), biweeklyRate |-> finalRate]

ZeroRates == [annualRate |-> DyZero, biweeklyRate |-> DyZero]

calculateAmortizationRate(params) ==
    IF params.paymentsCount <= 0 THEN ZeroRates
    ELSE SolveResult(SolveLoop(SolveInit, params))

(* (annualInterestRate / 100) / 24 in units of 0.05, that is annual/120.   *)
(* Only whole multiples of 15 percent are supplied as annual rates: for    *)
(* them the periodic rate is k/8 of 0.05, an exact dyadic.                 *)
BiweeklyOfAnnual(annual) ==
    CASE annual.whole % 15 = 0 /\ annual.frac = Zeros(Len(annual.frac)) ->
        LET k == annual.whole \div 15
        IN  Dy(k \div 8, <<(k \div 4) % 2, (k \div 2) % 2, k % 2>>)

(* JavaScript truthiness of an optional number.                            *)
Truthy(o) == IsSet(o) /\ o[1] # 0
OrZero(o) == IF Truthy(o) THEN o[1] ELSE 0

(* Mutant: the guard compares the amount with < instead of <=.             *)
IsDegenerateStrictAmount(details) ==
    \/ details.amount < 0
    \/ details.paymentsCount <= 0
    \/ details.biweeklyPayment <= 0
    \/ details.annualInterestRate.whole < 0

(* Line 94.                                                                *)
IsDegenerate(details) ==
    \/ details.amount <= 0
    \/ details.paymentsCount <= 0
    \/ details.biweeklyPayment <= 0
    \/ details.annualInterestRate.whole < 0

(* Line 96.                                                                *)
BiweeklyRateOf(details) ==
    IF IsSet(details.preciseBiweeklyRate) THEN details.preciseBiweeklyRate[1]
    ELSE BiweeklyOfAnnual(details.annualInterestRate)

(* Mutant: the final scheduled period is not forced to pay the loan off.   *)
IsPayoffPeriodNoFinal(i, details, currentRemainingBalance, interest) ==
    roundCents(currentRemainingBalance + interest, 1) <= details.biweeklyPayment

(* Line 114.                                                               *)
IsPayoffPeriod(i, details, currentRemainingBalance, interest) ==
    \/ i = details.paymentsCount - 1
    \/ roundCents(currentRemainingBalance + interest, 1) <= details.biweeklyPayment

(* Mutant: the override is applied one period late.                        *)
KnownBalanceAppliesLate(i, details) ==
    /\ IsSet(details.paymentsMade)
    /\ i = details.paymentsMade[1]
    /\ Truthy(details.knownRemainingBalance)

(* Line 128.                                                               *)
KnownBalanceApplies(i, details) ==
    /\ IsSet(details.paymentsMade)
    /\ i + 1 = details.paymentsMade[1]
    /\ Truthy(details.knownRemainingBalance)

(* Lines 94-100; ret is TRUE once the function has returned.               *)
GenInit(details) ==
    IF IsDegenerate(details)
    THEN [remainingBalance |-> 0, i |-> 0, schedule |-> <<>>, ret |-> TRUE]
    ELSE [remainingBalance |-> details.amount, i |-> 0, schedule |-> <<>>,
          ret |-> FALSE]

(* Mutant: the row after the last one made also starts paid.               *)
IsInitiallyPaidInclusive(i, details) == i <= OrZero(details.paymentsMade)

(* Line 132.                                                               *)
IsInitiallyPaid(i, details) == i < OrZero(details.paymentsMade)

(* Mutant: the principal of an ordinary row is not clamped at 0.           *)
GenBodyNoClamp(st, details) ==
    IF ~(st.i < details.paymentsCount) THEN [st EXCEPT !.ret = TRUE]
    ELSE IF st.remainingBalance < 1 /\ st.i > 0 THEN [st EXCEPT !.ret = TRUE]
    ELSE
    LET i == st.i
        biweeklyRate == BiweeklyRateOf(details)
        paymentDates == generatePaymentDates(details.paymentsCount,
                                             details.firstPaymentDate)
        interest == InterestOf(st.remainingBalance, biweeklyRate)
        payoff == IsPayoffPeriod(i, details, st.remainingBalance, interest)
        paymentAmount ==
            IF payoff THEN roundCents(st.remainingBalance + interest, 1)
            ELSE details.biweeklyPayment
        principal ==
            IF payoff THEN st.remainingBalance
            ELSE roundCents(details.biweeklyPayment - interest, 1)
        computedBalance ==
            IF payoff THEN 0
            ELSE roundCents(st.remainingBalance - principal, 1)
        currentRemainingBalance ==
            IF KnownBalanceApplies(i, details)
            THEN details.knownRemainingBalance[1]
            ELSE computedBalance
        isInitiallyPaid == IsInitiallyPaid(i, details)
        row == [id |-> i + 1,
                paymentNumber |-> i + 1,
                paymentDate |-> paymentDates[i + 1],
                amount |-> paymentAmount,
                principal |-> principal,
                interest |-> interest,
                remainingBalance |-> currentRemainingBalance,
                status |-> IF isInitiallyPaid THEN "paid" ELSE "pending",
                amountPaid |-> IF isInitiallyPaid THEN Some(paymentAmount)
                               ELSE None]
    IN  [st EXCEPT !.schedule = Append(st.schedule, row),
                   !.remainingBalance = currentRemainingBalance,
                   !.i = i + 1]

(* Lines 102-148: one evaluation of the loop test and, if it passes, of    *)
(* the loop body.                                                          *)
GenBody(st, details) ==
    IF ~(st.i < details.paymentsCount) THEN [st EXCEPT !.ret = TRUE]
    ELSE IF st.remainingBalance < 1 /\ st.i > 0 THEN [st EXCEPT !.ret = TRUE]
    ELSE
    LET i == st.i
        biweeklyRate == BiweeklyRateOf(details)
        paymentDates == generatePaymentDates(details.paymentsCount,
                                             details.firstPaymentDate)
        interest == InterestOf(st.remainingBalance, biweeklyRate)
        payoff == IsPayoffPeriod(i, details, st.remainingBalance, interest)
        paymentAmount ==
            IF payoff THEN roundCents(st.remainingBalance + interest, 1)
            ELSE details.biweeklyPayment
        principal ==
            IF payoff THEN st.remainingBalance
            ELSE Max(roundCents(details.biweeklyPayment - interest, 1), 0)
        computedBalance ==
            IF payoff THEN 0
            ELSE roundCents(st.remainingBalance - principal, 1)
        currentRemainingBalance ==
            IF KnownBalanceApplies(i, details)
            THEN details.knownRemainingBalance[1]
            ELSE computedBalance
        isInitiallyPaid == IsInitiallyPaid(i, details)
        row == [id |-> i + 1,
                paymentNumber |-> i + 1,
                paymentDate |-> paymentDates[i + 1],
                amount |-> paymentAmount,
                principal |-> principal,
                interest |-> interest,
                remainingBalance |-> currentRemainingBalance,
                status |-> IF isInitiallyPaid THEN "paid" ELSE "pending",
                amountPaid |-> IF isInitiallyPaid THEN Some(paymentAmount)
                               ELSE None]
    IN  [st EXCEPT !.schedule = Append(st.schedule, row),
                   !.remainingBalance = currentRemainingBalance,
                   !.i = i + 1]

RECURSIVE GenLoop(_, _)
GenLoop(st, details) ==
    IF st.ret THEN st.schedule ELSE GenLoop(GenBody(st, details), details)

generatePaymentSchedule(details) == GenLoop(GenInit(details), details)

----------------------------------------------------------------------------
(* src/App.tsx                                                             *)

(* Mutant: the two solved rates are stored the wrong way round.            *)
handleCalculateSwapsRates(details) ==
    IF /\ Truthy(details.knownRemainingBalance)
       /\ Truthy(details.paymentsMade)
       /\ details.paymentsMade[1] > 0
    THEN LET initial == calculateAmortizationRate(
                 [amount |-> details.amount,
                  biweeklyPayment |-> details.biweeklyPayment,
                  paymentsCount |-> details.paymentsMade[1],
                  targetBalance |-> details.knownRemainingBalance[1]])
             remainingPayments == details.paymentsCount - details.paymentsMade[1]
             future == calculateAmortizationRate(
                 [amount |-> details.knownRemainingBalance[1],
                  biweeklyPayment |-> details.biweeklyPayment,
                  paymentsCount |-> remainingPayments,
                  targetBalance |-> 0])
         IN  [details EXCEPT !.annualInterestRate = future.annualRate,
                             !.preciseBiweeklyRate = Some(initial.biweeklyRate),
                             !.initialPhaseBiweeklyRate = Some(future.biweeklyRate)]
    ELSE IF DyIsZero(details.annualInterestRate)
    THEN LET solved == calculateAmortizationRate(
                 [amount |-> details.amount,
                  biweeklyPayment |-> details.biweeklyPayment,
                  paymentsCount |-> details.paymentsCount,
                  targetBalance |-> 0])
         IN  [details EXCEPT !.annualInterestRate = solved.annualRate,
                             !.preciseBiweeklyRate = Some(solved.biweeklyRate)]
    ELSE details

(* Lines 22-64: the details stored and passed to the generator.            *)
handleCalculate(details) ==
    IF /\ Truthy(details.knownRemainingBalance)
       /\ Truthy(details.paymentsMade)
       /\ details.paymentsMade[1] > 0
    THEN LET initial == calculateAmortizationRate(
                 [amount |-> details.amount,
                  biweeklyPayment |-> details.biweeklyPayment,
                  paymentsCount |-> details.paymentsMade[1],
                  targetBalance |-> details.knownRemainingBalance[1]])
             remainingPayments == details.paymentsCount - details.paymentsMade[1]
             future == calculateAmortizationRate(
                 [amount |-> details.knownRemainingBalance[1],
                  biweeklyPayment |-> details.biweeklyPayment,
                  paymentsCount |-> remainingPayments,
                  targetBalance |-> 0])
         IN  [details EXCEPT !.annualInterestRate = future.annualRate,
                             !.preciseBiweeklyRate = Some(future.biweeklyRate),
                             !.initialPhaseBiweeklyRate = Some(initial.biweeklyRate)]
    ELSE IF DyIsZero(details.annualInterestRate)
    THEN LET solved == calculateAmortizationRate(
                 [amount |-> details.amount,
                  biweeklyPayment |-> details.biweeklyPayment,
                  paymentsCount |-> details.paymentsCount,
                  targetBalance |-> 0])
         IN  [details EXCEPT !.annualInterestRate = solved.annualRate,
                             !.preciseBiweeklyRate = Some(solved.biweeklyRate)]
    ELSE details

(* parseFloat on a string given as a sequence of characters: an optional   *)
(* minus sign, digits, and an optional point followed by digits.  The      *)
(* result is a number of cents (strings carry at most two decimals), or    *)
(* None for NaN.                                                           *)
DigitChars == <<"0", "1", "2", "3", "4", "5", "6", "7", "8", "9">>
IsDigit(c) == \E d \in 1..10 : DigitChars[d] = c
DigitVal(c) == (CHOOSE d \in 1..10 : DigitChars[d] = c) - 1

RECURSIVE LeadingDigits(_)
LeadingDigits(str) ==
    IF str # <<>> /\ IsDigit(Head(str))
    THEN <<Head(str)>> \o LeadingDigits(Tail(str))
    ELSE <<>>

RECURSIVE DigitsValue(_, _)
DigitsValue(digits, acc) ==
    IF digits = <<>> THEN acc
    ELSE DigitsValue(Tail(digits), 10 * acc + DigitVal(Head(digits)))

parseFloat(str) ==
    LET negative == str # <<>> /\ Head(str) = "-"
        body == IF negative THEN Tail(str) ELSE str
        intDigits == LeadingDigits(body)
        afterInt == SubSeq(body, Len(intDigits) + 1, Len(body))
        fracDigits == IF afterInt # <<>> /\ Head(afterInt) = "."
                      THEN LeadingDigits(Tail(afterInt)) ELSE <<>>
        cents == DigitsValue(intDigits, 0) * 100
                   + DigitsValue(SubSeq(fracDigits \o <<"0", "0">>, 1, 2), 0)
    IN  IF intDigits = <<>> /\ fracDigits = <<>> THEN None
        ELSE Some(IF negative THEN 0 - cents ELSE cents)

(* Mutant: the paid test has no 0.01 tolerance.                            *)
handleAmountPaidChangeNoEpsilon(prevPayments, paymentId, amountStr) ==
    LET paidAmount == parseFloat(amountStr)
        newAmountPaid == IF paidAmount = None \/ paidAmount[1] < 0 THEN None
                         ELSE paidAmount
        NewStatus(p) ==
            IF newAmountPaid = None THEN "pending"
            ELSE IF newAmountPaid[1] >= p.amount THEN "paid"
            ELSE IF newAmountPaid[1] > 0 THEN "partial"
            ELSE "pending"
    IN  [k \in 1..Len(prevPayments) |->
            LET p == prevPayments[k]
            IN  IF p.id = paymentId
                THEN [p EXCEPT !.amountPaid = newAmountPaid,
                               !.status = NewStatus(p)]
                ELSE p]

(* Mutant: an amount of 0 below the tolerance makes the row partial.       *)
handleAmountPaidChangeZeroIsPartial(prevPayments, paymentId, amountStr) ==
    LET paidAmount == parseFloat(amountStr)
        newAmountPaid == IF paidAmount = None \/ paidAmount[1] < 0 THEN None
                         ELSE paidAmount
        NewStatus(p) ==
            IF newAmountPaid = None THEN "pending"
            ELSE IF newAmountPaid[1] >= p.amount - 1 THEN "paid"
            ELSE IF newAmountPaid[1] >= 0 THEN "partial"
            ELSE "pending"
    IN  [k \in 1..Len(prevPayments) |->
            LET p == prevPayments[k]
            IN  IF p.id = paymentId
                THEN [p EXCEPT !.amountPaid = newAmountPaid,
                               !.status = NewStatus(p)]
                ELSE p]

(* Lines 66-87.                                                            *)
handleAmountPaidChange(prevPayments, paymentId, amountStr) ==
    LET paidAmount == parseFloat(amountStr)
        newAmountPaid == IF paidAmount = None \/ paidAmount[1] < 0 THEN None
                         ELSE paidAmount
        NewStatus(p) ==
            IF newAmountPaid = None THEN "pending"
            ELSE IF newAmountPaid[1] >= p.amount - 1 THEN "paid"
            ELSE IF newAmountPaid[1] > 0 THEN "partial"
            ELSE "pending"
    IN  [k \in 1..Len(prevPayments) |->
            LET p == prevPayments[k]
            IN  IF p.id = paymentId
                THEN [p EXCEPT !.amountPaid = newAmountPaid,
                               !.status = NewStatus(p)]
                ELSE p]

(* Mutant: marking a row paid leaves its amountPaid as it was.             *)
handlePaymentToggleNoAmount(prevPayments, paymentId) ==
    [k \in 1..Len(prevPayments) |->
        LET p == prevPayments[k]
            isCurrentlyPaid == p.status = "paid"
        IN  IF p.id = paymentId
            THEN [p EXCEPT !.status = IF isCurrentlyPaid THEN "pending" ELSE "paid",
                           !.amountPaid = IF isCurrentlyPaid THEN None
                                          ELSE p.amountPaid]
            ELSE p]

(* Mutant: un-toggling a paid row keeps its amountPaid.                    *)
handlePaymentToggleKeepsAmount(prevPayments, paymentId) ==
    [k \in 1..Len(prevPayments) |->
        LET p == prevPayments[k]
            isCurrentlyPaid == p.status = "paid"
        IN  IF p.id = paymentId
            THEN [p EXCEPT !.status = IF isCurrentlyPaid THEN "pending" ELSE "paid",
                           !.amountPaid = IF isCurrentlyPaid THEN p.amountPaid
                                          ELSE Some(p.amount)]
            ELSE p]

(* Mutant: the rows up to the given id are toggled, not only that row.     *)
handlePaymentToggleAnyRow(prevPayments, paymentId) ==
    [k \in 1..Len(prevPayments) |->
        LET p == prevPayments[k]
            isCurrentlyPaid == p.status = "paid"
        IN  IF p.id <= paymentId
            THEN [p EXCEPT !.status = IF isCurrentlyPaid THEN "pending" ELSE "paid",
                           !.amountPaid = IF isCurrentlyPaid THEN None
                                          ELSE Some(p.amount)]
            ELSE p]

(* Lines 89-105.                                                           *)
handlePaymentToggle(prevPayments, paymentId) ==
    [k \in 1..Len(prevPayments) |->
        LET p == prevPayments[k]
            isCurrentlyPaid == p.status = "paid"
        IN  IF p.id = paymentId
            THEN [p EXCEPT !.status = IF isCurrentlyPaid THEN "pending" ELSE "paid",
                           !.amountPaid = IF isCurrentlyPaid THEN None
                                          ELSE Some(p.amount)]
            ELSE p]

(* Mutant: the walk ends at the last row that is paid in full.             *)
LastActiveRowPaidOnly(pays) ==
    LET active == {k \in 1..Len(pays) : pays[k].status = "paid"}
    IN  IF active = {} THEN 0 ELSE CHOOSE k \in active : \A j \in active : j <= k

(* Line 177: the 1-based position of the last row that is not pending, 0   *)
(* when there is none (lastPaymentIndex + 1).                              *)
LastActiveRow(pays) ==
    LET active == {k \in 1..Len(pays) : pays[k].status # "pending"}
    IN  IF active = {} THEN 0 ELSE CHOOSE k \in active : \A j \in active : j <= k

RECURSIVE SumSeq(_)
SumSeq(values) ==
    IF values = <<>> THEN 0 ELSE Head(values) + SumSeq(Tail(values))

(* The three reduce calls of the summary, over the first n rows.           *)
SumAmountPaid(pays, n) == SumSeq([k \in 1..n |-> OrZero(pays[k].amountPaid)])
SumInterest(pays, n) == SumSeq([k \in 1..n |-> pays[k].interest])
(* Mutant: each row's shortfall is floored at 0 before it is added.        *)
SumShortfallPerRow(pays, n) ==
    SumSeq([k \in 1..n |-> Max(0, pays[k].amount - OrZero(pays[k].amountPaid))])

SumShortfall(pays, n) ==
    SumSeq([k \in 1..n |-> pays[k].amount - OrZero(pays[k].amountPaid)])

(* Lines 181-192: the for loop of the walk; st.i is the loop index and     *)
(* row i is pays[i + 1].                                                   *)
WalkInit(details) ==
    [dynamicBalance |-> RealOfInt(details.amount), i |-> 0, exited |-> FALSE]

(* Mutant: the initial rate is used strictly before the pivot only.        *)
WalkBodyStrictPivot(st, pays, last, details, rates) ==
    IF ~(st.i <= last - 1) THEN [st EXCEPT !.exited = TRUE]
    ELSE LET pivotIndex == OrZero(details.paymentsMade) - 1
             currentRate == IF st.i < pivotIndex THEN rates.initialRate
                            ELSE rates.standardRate
             interest == RealTimesRate(st.dynamicBalance, currentRate)
             paymentAmount == IF IsSet(pays[st.i + 1].amountPaid)
                              THEN pays[st.i + 1].amountPaid[1] ELSE 0
         IN  [st EXCEPT !.dynamicBalance =
                            RealSubInt(RealAdd(st.dynamicBalance, interest),
                                       paymentAmount),
                        !.i = st.i + 1]

WalkBody(st, pays, last, details, rates) ==
    IF ~(st.i <= last - 1) THEN [st EXCEPT !.exited = TRUE]
    ELSE LET pivotIndex == OrZero(details.paymentsMade) - 1
             currentRate == IF st.i <= pivotIndex THEN rates.initialRate
                            ELSE rates.standardRate
             interest == RealTimesRate(st.dynamicBalance, currentRate)
             paymentAmount == IF IsSet(pays[st.i + 1].amountPaid)
                              THEN pays[st.i + 1].amountPaid[1] ELSE 0
         IN  [st EXCEPT !.dynamicBalance =
                            RealSubInt(RealAdd(st.dynamicBalance, interest),
                                       paymentAmount),
                        !.i = st.i + 1]

RECURSIVE WalkLoop(_, _, _, _, _)
WalkLoop(st, pays, last, details, rates) ==
    IF st.exited THEN st.dynamicBalance
    ELSE WalkLoop(WalkBody(st, pays, last, details, rates),
                  pays, last, details, rates)

BalanceWalk(pays, last, details, rates) ==
    WalkLoop(WalkInit(details), pays, last, details, rates)

(* A canonical form, so that equal amounts are equal values.               *)
RealNorm(x) ==
    LET r == RealRaise(x, MaxAppRows)
    IN  Real(Dy(r.num.whole, TrimZeros(r.num.frac)), MaxAppRows)

NoSummary ==
    [totalLoan |-> 0, totalPaid |-> 0, remainingBalance |-> RealNorm(RealOfInt(0)),
     paidCount |-> 0, totalInterest |-> 0, shortfall |-> 0, previousDebt |-> 0]

(* Lines 157-213.                                                          *)
summary(ld, pays) ==
    IF ld = None THEN NoSummary
    ELSE
    LET details == ld[1]
        totalPaid == SumAmountPaid(pays, Len(pays))
        paidCount == Cardinality({k \in 1..Len(pays) : pays[k].status = "paid"})
        totalInterest == SumInterest(pays, Len(pays))
        standardRate == BiweeklyRateOf(details)
        initialRate == IF IsSet(details.initialPhaseBiweeklyRate)
                       THEN details.initialPhaseBiweeklyRate[1]
                       ELSE standardRate
        last == LastActiveRow(pays)
        dynamicBalance ==
            BalanceWalk(pays, last, details,
                        [initialRate |-> initialRate, standardRate |-> standardRate])
        cumulativeShortfall == SumShortfall(pays, last)
    IN  [totalLoan |-> details.amount,
         totalPaid |-> totalPaid,
         remainingBalance |-> IF RealLessThanInt(dynamicBalance, 1)
                              THEN RealNorm(RealOfInt(0))
                              ELSE RealNorm(dynamicBalance),
         paidCount |-> paidCount,
         totalInterest |-> IF totalInterest > 0 THEN totalInterest ELSE 0,
         shortfall |-> IF cumulativeShortfall > 0 THEN cumulativeShortfall ELSE 0,
         previousDebt |-> OrZero(details.previousDebt)]

----------------------------------------------------------------------------
(* Specification SpecSim: simulateLoanBalance run at two rates r1 <= r2 on *)
(* the same principal, payment and period count, one loop step at a time.  *)

SimRates ==
    {Dy(0, bits) : bits \in [1..RateBits -> {0, 1}]} \cup {Dy(1, Zeros(RateBits))}

RateOfRun(k) == IF k = 1 THEN simArgs.r1 ELSE simArgs.r2

SimIdle ==
    /\ simArgs = None
    /\ simRun = 0
    /\ simSt = None
    /\ simRes = <<>>

AppIdle ==
    /\ loanDetails = None
    /\ payments = <<>>
    /\ hist = None

GenIdle ==
    /\ genArgs = None
    /\ genSt = None

DateIdle ==
    /\ dateArgs = None
    /\ dateSt = None

SolveIdle ==
    /\ solveArgs = None
    /\ solveSt = None
    /\ solveRet = None

InitSim ==
    /\ simArgs \in [principal : 0..MaxPrincipal, payment : 0..MaxPayment,
                    periods : 0..MaxPeriods, r1 : SimRates, r2 : SimRates]
    /\ DyLE(simArgs.r1, simArgs.r2)
    /\ simRun = 1
    /\ simSt = SimInit(simArgs.principal)
    /\ simRes = <<>>
    /\ SolveIdle
    /\ DateIdle
    /\ GenIdle
    /\ AppIdle

(* One evaluation of the loop test and, if it passes, of the loop body.    *)
SimIter ==
    /\ simRun \in {1, 2}
    /\ ~IsSet(simSt.ret)
    /\ simSt' = SimBody(simSt, RateOfRun(simRun), simArgs.payment, simArgs.periods)
    /\ UNCHANGED <<simArgs, simRun, simRes, solveVars, dateVars, genVars, appVars>>

(* The call returns; the second run starts after the first.                *)
SimReturn ==
    /\ simRun \in {1, 2}
    /\ IsSet(simSt.ret)
    /\ simRes' = Append(simRes, simSt.ret[1])
    /\ simRun' = simRun + 1
    /\ simSt' = SimInit(simArgs.principal)
    /\ UNCHANGED <<simArgs, solveVars, dateVars, genVars, appVars>>

NextSim == SimIter \/ SimReturn

SpecSim == InitSim /\ [][NextSim]_vars

SimBothDone == Len(simRes) = 2

(* C1 (as stated): for r1 <= r2 the value returned at r2 is never smaller  *)
(* than the value returned at r1, Infinity counting as the largest value   *)
(* and an early-returned negative balance as the final balance.            *)
C1_MonotonicInRate == SimBothDone => simRes[2] >= simRes[1]

(* C1 (amended): for r1 <= r2, when the value returned at r1 is not        *)
(* negative (a balance >= 0 or Infinity), the value returned at r2 is      *)
(* never smaller.                                                          *)
C1_MonotonicWhenNotOverpaid ==
    (SimBothDone /\ simRes[1] >= 0) => simRes[2] >= simRes[1]

(* Both runs returned finite non-negative balances, the higher rate        *)
(* leaving strictly more owed after at least two periods.                  *)
C1_Witness ==
    /\ SimBothDone
    /\ simArgs.periods >= 2
    /\ simRes[1] >= 0
    /\ simRes[2] > simRes[1]
    /\ simRes[2] < Infinity

(* The running call is about to execute a period whose rounded interest    *)
(* is not below the payment.                                               *)
SimUnpayableNow ==
    /\ simRun \in {1, 2}
    /\ ~IsSet(simSt.ret)
    /\ simSt.i < simArgs.periods
    /\ simArgs.payment <= InterestOf(simSt.balance, RateOfRun(simRun))

(* C8: simulateLoanBalance returns Infinity whenever a period it reaches   *)
(* has payment <= round(balance * rate); in particular, with periods >= 1, *)
(* whenever payment <= the first period's rounded interest on the          *)
(* principal.                                                              *)
C8_UnpayableReturnsInfinity ==
    /\ [][SimUnpayableNow => simSt'.ret = Some(Infinity)]_vars
    /\ [][(IsSet(simSt.ret) /\ Len(simRes') > Len(simRes))
            => simRes'[Len(simRes')] = simSt.ret[1]]_vars
    /\ [](\A k \in 1..Len(simRes) :
            (/\ simArgs.periods >= 1
             /\ simArgs.payment <= InterestOf(simArgs.principal, RateOfRun(k)))
            => simRes[k] = Infinity)

(* A call with a positive payment that does not cover the first period's   *)
(* interest has returned Infinity.                                         *)
C8_Witness ==
    /\ Len(simRes) >= 1
    /\ simArgs.periods >= 1
    /\ simArgs.payment > 0
    /\ simArgs.payment <= InterestOf(simArgs.principal, simArgs.r1)
    /\ simRes[1] = Infinity

----------------------------------------------------------------------------
(* Specification SpecSolve: one call of calculateAmortizationRate, one     *)
(* bisection step at a time.                                               *)

SolveAmounts == {20 * k : k \in 1..MaxSolveUnits}

InitSolve ==
    /\ solveArgs \in [amount : SolveAmounts,
                      biweeklyPayment : 1..MaxSolvePayment,
                      paymentsCount : (-1)..MaxPeriods,
                      targetBalance : 0..MaxTarget]
    /\ solveSt = None
    /\ solveRet = None
    /\ SimIdle
    /\ DateIdle
    /\ GenIdle
    /\ AppIdle

(* Line 63: the early return for paymentsCount <= 0.                       *)
SolveDegenerate ==
    /\ solveSt = None /\ solveRet = None
    /\ solveArgs.paymentsCount <= 0
    /\ solveRet' = Some(ZeroRates)
    /\ UNCHANGED <<solveArgs, solveSt, simVars, dateVars, genVars, appVars>>

(* Lines 65-67: the bounds are initialised.                                *)
SolveStart ==
    /\ solveSt = None /\ solveRet = None
    /\ ~(solveArgs.paymentsCount <= 0)
    /\ solveSt' = SolveInit
    /\ UNCHANGED <<solveArgs, solveRet, simVars, dateVars, genVars, appVars>>

(* Lines 69-83: one pass through the for loop.                             *)
BisectIter ==
    /\ solveSt # None /\ solveRet = None
    /\ ~solveSt.exited
    /\ solveSt' = SolveBody(solveSt, solveArgs)
    /\ UNCHANGED <<solveArgs, solveRet, simVars, dateVars, genVars, appVars>>

(* Lines 85-87.                                                            *)
SolveReturn ==
    /\ solveSt # None /\ solveRet = None
    /\ solveSt.exited
    /\ solveRet' = Some(SolveResult(solveSt))
    /\ UNCHANGED <<solveArgs, solveSt, simVars, dateVars, genVars, appVars>>

NextSolve == SolveDegenerate \/ SolveStart \/ BisectIter \/ SolveReturn

SpecSolve == InitSolve /\ [][NextSolve]_vars

(* The ending balance obtained by re-running the simulation with the       *)
(* returned biweeklyRate.                                                  *)
Resimulated ==
    simulateLoanBalance(solveArgs.amount, solveRet[1].biweeklyRate,
                        solveArgs.biweeklyPayment, solveArgs.paymentsCount)

SolveReturned == solveRet # None /\ solveArgs.paymentsCount >= 1

DyEq(x, y) == x.whole = y.whole /\ TrimZeros(x.frac) = TrimZeros(y.frac)

(* C13: the returned annualRate is biweeklyRate x 24 x 100 (with the rate  *)
(* in units of 0.05: annualRate x 20 = rate x 2400), and a call with       *)
(* paymentsCount <= 0 returns the pair (0, 0) and never enters the loop.   *)
C13_AnnualRateAndZeroPair ==
    /\ solveRet # None =>
          DyEq(DyMulInt(solveRet[1].annualRate, RateUnitDen),
               DyMulInt(solveRet[1].biweeklyRate, 24 * 100))
    /\ (solveArgs # None /\ solveArgs.paymentsCount <= 0) =>
          /\ solveSt = None
          /\ solveRet # None =>
                /\ DyIsZero(solveRet[1].annualRate)
                /\ DyIsZero(solveRet[1].biweeklyRate)

(* A search that converged after several halvings returned a non-zero      *)
(* rate.                                                                   *)
C13_Witness ==
    /\ solveRet # None
    /\ solveSt # None
    /\ solveSt.converged
    /\ solveSt.i >= 2
    /\ ~DyIsZero(solveRet[1].biweeklyRate)
    /\ ~DyIsZero(solveRet[1].annualRate)

(* The balance simulated at the midpoint a bisection step has just tried.  *)
BalanceAtNewMid ==
    simulateLoanBalance(solveArgs.amount, solveSt'.midRate,
                        solveArgs.biweeklyPayment, solveArgs.paymentsCount)

BisectStepPost ==
    LET balance == BalanceAtNewMid
        target == solveArgs.targetBalance
        moved == ~solveSt'.exited /\ ~solveSt'.converged
                 /\ solveSt'.i = solveSt.i + 1
    IN  IF solveSt.i < SolverIterations
        THEN /\ DyEq(solveSt'.midRate,
                     DyHalf(DyAdd(solveSt.lowRate, solveSt.highRate)))
             /\ IF balance # Infinity /\ Abs(balance - target) < 1
                THEN /\ solveSt'.exited /\ solveSt'.converged
                     /\ solveSt'.lowRate = solveSt.lowRate
                     /\ solveSt'.highRate = solveSt.highRate
                ELSE IF balance = Infinity \/ balance > target
                THEN /\ moved
                     /\ solveSt'.highRate = solveSt'.midRate
                     /\ solveSt'.lowRate = solveSt.lowRate
                ELSE /\ moved
                     /\ solveSt'.lowRate = solveSt'.midRate
                     /\ solveSt'.highRate = solveSt.highRate
        ELSE solveSt' = [solveSt EXCEPT !.exited = TRUE]

BisectBounds ==
    solveSt # None =>
        /\ DyLE(DyZero, solveSt.lowRate)
        /\ DyLE(solveSt.lowRate, solveSt.midRate)
        /\ DyLE(solveSt.midRate, solveSt.highRate)
        /\ DyLE(solveSt.highRate, DyOne)
        /\ solveSt.i + (IF solveSt.converged THEN 1 ELSE 0) <= SolverIterations

(* C14: in every bisection step an unpayable result, like a finite balance *)
(* above the target, moves the upper bound to the midpoint and the search  *)
(* goes on (it is never taken as converged); any other non-converged       *)
(* result moves the lower bound; 0 <= low <= mid <= high <= 0.05 holds     *)
(* throughout and at most 100 simulations are run.                         *)
C14_BisectionStep ==
    /\ [][BisectIter => BisectStepPost]_vars
    /\ []BisectBounds

(* The step just taken simulated an unpayable loan at the midpoint: the    *)
(* upper bound came down to it and the search goes on.                     *)
C14_Witness ==
    /\ solveSt # None
    /\ solveSt.i >= 2
    /\ ~solveSt.exited
    /\ solveSt.highRate = solveSt.midRate
    /\ simulateLoanBalance(solveArgs.amount, solveSt.midRate,
                           solveArgs.biweeklyPayment, solveArgs.paymentsCount)
          = Infinity

----------------------------------------------------------------------------
(* Specification SpecDates: one call of generatePaymentDates, one pushed   *)
(* date at a time.                                                         *)

FirstDates ==
    {MkDate(y, m, d) : y \in {LastYear - 1, LastYear}, m \in 0..11, d \in 1..31}

InitDates ==
    /\ dateArgs \in [count : (0 - 1)..MaxCount, firstPaymentDate : FirstDates]
    /\ dateArgs.firstPaymentDate.day
          <= DaysInMonth(dateArgs.firstPaymentDate.year,
                         dateArgs.firstPaymentDate.month)
    /\ dateSt = None
    /\ SimIdle
    /\ SolveIdle
    /\ GenIdle
    /\ AppIdle

(* Lines 12-16.                                                            *)
DatesStart ==
    /\ dateSt = None
    /\ dateSt' = DatesInit(dateArgs.count, dateArgs.firstPaymentDate)
    /\ UNCHANGED <<dateArgs, simVars, solveVars, genVars, appVars>>

(* Lines 18-30: one evaluation of the while test and, if it passes, of the *)
(* body.                                                                   *)
DatesIter ==
    /\ dateSt # None
    /\ ~dateSt.ret
    /\ dateSt' = DatesBody(dateSt, dateArgs.count)
    /\ UNCHANGED <<dateArgs, simVars, solveVars, genVars, appVars>>

NextDates == DatesStart \/ DatesIter

SpecDates == InitDates /\ [][NextDates]_vars

DatesReturned == dateSt # None /\ dateSt.ret

(* C6: generatePaymentDates(count, first) returns the empty sequence for   *)
(* every count <= 0, and for count >= 1 exactly count dates, the first of  *)
(* which is the supplied first date unmodified.                            *)
C6_CountAndFirstDate ==
    DatesReturned =>
        /\ dateArgs.count <= 0 => dateSt.dates = <<>>
        /\ dateArgs.count >= 1 =>
              /\ Len(dateSt.dates) = dateArgs.count
              /\ dateSt.dates[1] = dateArgs.firstPaymentDate

(* A call with count >= 3 returned, starting from a 31st.                  *)
C6_Witness ==
    /\ DatesReturned
    /\ dateArgs.count >= 3
    /\ dateArgs.firstPaymentDate.day = 31
    /\ Len(dateSt.dates) = dateArgs.count

NextMonthOf(d) ==
    IF d.month = 11 THEN [year |-> d.year + 1, month |-> 0]
    ELSE [year |-> d.year, month |-> d.month + 1]

(* C7: for consecutive dates (d, e): if day(d) <= 15 then e is day 30 (28  *)
(* in February) of the month and year of d; if day(d) > 15 then e is day   *)
(* 15 of the next calendar month (January of the next year after           *)
(* December).  Hence the sequence is strictly increasing.                  *)
C7_SemiMonthlyRule ==
    dateSt # None =>
        \A j \in 1..(Len(dateSt.dates) - 1) :
            LET d == dateSt.dates[j]
                e == dateSt.dates[j + 1]
            IN  /\ d.day <= 15 =>
                      e = MkDate(d.year, d.month, IF d.month = 1 THEN 28 ELSE 30)
                /\ d.day > 15 =>
                      e = MkDate(NextMonthOf(d).year, NextMonthOf(d).month, 15)
                /\ DateLT(d, e)

(* A returned sequence that passes through the end of February and across *)
(* the end of a year.                                                      *)
C7_Witness ==
    /\ DatesReturned
    /\ \E j \in 1..(Len(dateSt.dates) - 1) :
          dateSt.dates[j].month = 1 /\ dateSt.dates[j + 1] = MkDate(LastYear, 1, 28)
    /\ \E j \in 1..(Len(dateSt.dates) - 1) :
          dateSt.dates[j].month = 11 /\ dateSt.dates[j + 1].month = 0

----------------------------------------------------------------------------
(* Specification SpecGen: one call of generatePaymentSchedule, one row at  *)
(* a time.  The inputs are what the form can submit (a paymentsMade below  *)
(* the count is not enforced here) together with the degenerate amounts,   *)
(* counts, payments and rates that the guard of line 94 is written for.    *)

GenAmounts == {20 * k : k \in (0 - 1)..MaxGenUnits}
GenPayments == {1} \cup {7 * k : k \in 0..MaxGenPayUnits}
GenAnnualRates == {Dy(0 - 15, <<>>), Dy(0, <<>>), Dy(60, <<>>), Dy(120, <<>>)}
GenKnownBalances == {None, Some(10), Some(30)}
GenPreciseRates == {None, Some(Dy(0, <<1, 1>>))}
GenFirstDate == MkDate(LastYear, 0, 15)

InitGen ==
    /\ genArgs \in [amount : GenAmounts,
                    paymentsCount : (0 - 1)..MaxGenCount,
                    biweeklyPayment : GenPayments,
                    firstPaymentDate : {GenFirstDate},
                    annualInterestRate : GenAnnualRates,
                    paymentsMade : {None} \cup {Some(n) : n \in 0..(MaxGenCount - 1)},
                    knownRemainingBalance : GenKnownBalances,
                    preciseBiweeklyRate : GenPreciseRates,
                    previousDebt : {None},
                    initialPhaseBiweeklyRate : {None}]
    /\ genSt = None
    /\ SimIdle
    /\ SolveIdle
    /\ DateIdle
    /\ AppIdle

(* Lines 92-100.                                                           *)
GenStart ==
    /\ genSt = None
    /\ genSt' = GenInit(genArgs)
    /\ UNCHANGED <<genArgs, simVars, solveVars, dateVars, appVars>>

(* Lines 102-148.                                                          *)
GenIter ==
    /\ genSt # None
    /\ ~genSt.ret
    /\ genSt' = GenBody(genSt, genArgs)
    /\ UNCHANGED <<genArgs, simVars, solveVars, dateVars, appVars>>

NextGen == GenStart \/ GenIter

SpecGen == InitGen /\ [][NextGen]_vars

GenReturned == genSt # None /\ genSt.ret

(* The pivot inputs of the known-balance feature: both values supplied     *)
(* (the form only submits a positive known balance) and                    *)
(* 1 <= paymentsMade < paymentsCount, on a loan the guard accepts.         *)
KnownBalanceCase ==
    /\ ~IsDegenerate(genArgs)
    /\ IsSet(genArgs.knownRemainingBalance)
    /\ genArgs.knownRemainingBalance[1] >= 1
    /\ IsSet(genArgs.paymentsMade)
    /\ 1 <= genArgs.paymentsMade[1]
    /\ genArgs.paymentsMade[1] < genArgs.paymentsCount

(* Row made is present with the known balance, and row made + 1 is         *)
(* computed from that balance.                                             *)
PivotRowShowsKnownBalance ==
    LET made == genArgs.paymentsMade[1]
        known == genArgs.knownRemainingBalance[1]
        sched == genSt.schedule
    IN  /\ Len(sched) >= made + 1
        /\ sched[made].paymentNumber = made
        /\ sched[made].remainingBalance = known
        /\ sched[made + 1].interest = InterestOf(known, BiweeklyRateOf(genArgs))
        /\ \/ /\ sched[made + 1].principal = known
              /\ sched[made + 1].amount = known + sched[made + 1].interest
              /\ sched[made + 1].remainingBalance = 0
           \/ /\ sched[made + 1].amount = genArgs.biweeklyPayment
              /\ sched[made + 1].remainingBalance
                    = known - sched[made + 1].principal

(* C4 (as stated): whenever knownRemainingBalance and paymentsMade with    *)
(* 1 <= paymentsMade < paymentsCount are both supplied, the schedule       *)
(* contains the row numbered paymentsMade, its remainingBalance is         *)
(* knownRemainingBalance, and the following row's interest and balance     *)
(* are computed from that value.                                           *)
C4_KnownBalanceOverride ==
    (GenReturned /\ KnownBalanceCase) => PivotRowShowsKnownBalance

(* No row before period paymentsMade leaves a balance below 0.01.          *)
NoPayoffBeforePivot ==
    \A j \in 1..(genArgs.paymentsMade[1] - 1) :
        j <= Len(genSt.schedule) => genSt.schedule[j].remainingBalance >= 1

(* C4 (amended): the same, provided no row before period paymentsMade      *)
(* leaves a resulting balance below 0.01.                                  *)
C4_KnownBalanceOverrideWhenReached ==
    (GenReturned /\ KnownBalanceCase /\ NoPayoffBeforePivot)
        => PivotRowShowsKnownBalance

(* The override replaced a different computed balance at a pivot that is   *)
(* not the first row.                                                      *)
C4_Witness ==
    /\ GenReturned /\ KnownBalanceCase /\ NoPayoffBeforePivot
    /\ genArgs.paymentsMade[1] >= 2
    /\ LET made == genArgs.paymentsMade[1]
           sched == genSt.schedule
       IN  /\ Len(sched) >= made + 1
           /\ sched[made].remainingBalance
                 # sched[made - 1].remainingBalance - sched[made].principal
           /\ sched[made + 1].interest > 0

(* The inputs C5 is about.                                                 *)
NonDegenerateCase ==
    /\ ~IsDegenerate(genArgs)
    /\ OrZero(genArgs.paymentsMade) < genArgs.paymentsCount

(* C5: for every non-degenerate LoanDetails with paymentsMade <            *)
(* paymentsCount the schedule has between 1 and paymentsCount rows,        *)
(* numbered 1..n consecutively, the last row's remainingBalance is 0, and  *)
(* no row follows a row whose resulting balance is below 0.01.             *)
C5_ScheduleShape ==
    (GenReturned /\ NonDegenerateCase) =>
        LET sched == genSt.schedule
            n == Len(sched)
        IN  /\ 1 <= n /\ n <= genArgs.paymentsCount
            /\ \A j \in 1..n : sched[j].paymentNumber = j /\ sched[j].id = j
            /\ sched[n].remainingBalance = 0
            /\ \A j \in 1..(n - 1) : sched[j].remainingBalance >= 1

(* A schedule of at least two rows that stopped before the last scheduled  *)
(* period.                                                                 *)
C5_Witness ==
    /\ GenReturned /\ NonDegenerateCase
    /\ Len(genSt.schedule) >= 2
    /\ Len(genSt.schedule) < genArgs.paymentsCount
    /\ genSt.schedule[Len(genSt.schedule)].remainingBalance = 0

(* C10: generatePaymentSchedule returns the empty sequence whenever amount *)
(* <= 0, paymentsCount <= 0, biweeklyPayment <= 0 or the annual rate is    *)
(* negative, and at least one row for every other input.                   *)
C10_EmptyIffDegenerate ==
    GenReturned =>
        ((\/ genArgs.amount <= 0
          \/ genArgs.paymentsCount <= 0
          \/ genArgs.biweeklyPayment <= 0
          \/ genArgs.annualInterestRate.whole < 0)
            <=> genSt.schedule = <<>>)

(* A zero amount with everything else valid returned the empty schedule.   *)
C10_Witness ==
    /\ GenReturned
    /\ genArgs.amount = 0
    /\ genArgs.paymentsCount >= 1
    /\ genArgs.biweeklyPayment > 0
    /\ genArgs.annualInterestRate.whole >= 0
    /\ genSt.schedule = <<>>

(* C18: in the schedule being generated, and in the one returned, every    *)
(* row with 0-based index < paymentsMade (0 when not given) is paid with   *)
(* amountPaid equal to its scheduled amount, and every other row is        *)
(* pending with amountPaid unset; no row is partial.                       *)
C18_InitialStatus ==
    genSt # None =>
        LET made == IF genArgs.paymentsMade = None THEN 0
                    ELSE genArgs.paymentsMade[1]
        IN  \A k \in 1..Len(genSt.schedule) :
                LET row == genSt.schedule[k]
                IN  /\ row.status # "partial"
                    /\ (k - 1 < made) =>
                          row.status = "paid" /\ row.amountPaid = Some(row.amount)
                    /\ ~(k - 1 < made) =>
                          row.status = "pending" /\ row.amountPaid = None

(* A returned schedule with paid rows followed by pending rows, the last   *)
(* paid row being followed by more than one pending row.                   *)
C18_Witness ==
    /\ GenReturned
    /\ genArgs.paymentsMade # None
    /\ genArgs.paymentsMade[1] >= 2
    /\ Len(genSt.schedule) >= genArgs.paymentsMade[1] + 2
    /\ genSt.schedule[genArgs.paymentsMade[1]].status = "paid"
    /\ genSt.schedule[genArgs.paymentsMade[1] + 1].status = "pending"

(* The balance row k starts from: the amount for the first row, and the    *)
(* previous row's resulting balance after it.                              *)
StartingBalance(k) ==
    IF k = 1 THEN genArgs.amount ELSE genSt.schedule[k - 1].remainingBalance

(* Row k is the one whose resulting balance line 129 replaces.             *)
IsOverriddenRow(k) ==
    /\ genArgs.paymentsMade = Some(k)
    /\ genArgs.knownRemainingBalance # None
    /\ genArgs.knownRemainingBalance[1] # 0

(* Row k, starting from b with the given interest, is a payoff row.        *)
PayoffRow(k, b, interest) ==
    k = genArgs.paymentsCount \/ b + interest <= genArgs.biweeklyPayment

(* C21: every generated row, with starting balance b and interest =        *)
(* round(b x rate), is a payoff row when it is the final scheduled period  *)
(* or b + interest <= the fixed payment, and then has amount b + interest, *)
(* principal b and computed balance 0; otherwise it has amount = the fixed *)
(* payment, principal = max(0, fixed payment - interest) and computed      *)
(* balance b - principal (the computed balance is the stored one on every  *)
(* row but the one the known balance overrides).  Every row but the one    *)
(* of the final scheduled period has amount <= the fixed payment.          *)
C21_RowArithmetic ==
    genSt # None =>
        \A k \in 1..Len(genSt.schedule) :
            LET row == genSt.schedule[k]
                b == StartingBalance(k)
                interest == InterestOf(b, BiweeklyRateOf(genArgs))
                clamped == IF genArgs.biweeklyPayment - interest < 0 THEN 0
                           ELSE genArgs.biweeklyPayment - interest
            IN  /\ row.interest = interest
                /\ PayoffRow(k, b, interest) =>
                      /\ row.amount = b + interest
                      /\ row.principal = b
                      /\ ~IsOverriddenRow(k) => row.remainingBalance = 0
                /\ ~PayoffRow(k, b, interest) =>
                      /\ row.amount = genArgs.biweeklyPayment
                      /\ row.principal = clamped
                      /\ ~IsOverriddenRow(k) =>
                            row.remainingBalance = b - clamped
                /\ k # genArgs.paymentsCount =>
                      row.amount <= genArgs.biweeklyPayment

(* A returned schedule with an ordinary row whose interest exceeds the     *)
(* fixed payment (principal clamped at 0), an earlier payoff by amount     *)
(* being impossible, and a final-period payoff row that costs more than    *)
(* the fixed payment.                                                      *)
C21_Witness ==
    /\ GenReturned
    /\ Len(genSt.schedule) = genArgs.paymentsCount
    /\ Len(genSt.schedule) >= 2
    /\ genSt.schedule[1].interest > genArgs.biweeklyPayment
    /\ genSt.schedule[1].principal = 0
    /\ genSt.schedule[1].amount = genArgs.biweeklyPayment
    /\ LET n == Len(genSt.schedule)
       IN  /\ genSt.schedule[n].amount > genArgs.biweeklyPayment
           /\ genSt.schedule[n].principal = StartingBalance(n)
           /\ genSt.schedule[n].remainingBalance = 0

(* No row of the schedule is one that the known balance overrides.         *)
NoOverride == \A k \in 1..Len(genSt.schedule) : ~IsOverriddenRow(k)

(* Row k of the schedule is not a payoff row.                              *)
OrdinaryRow(k) ==
    ~PayoffRow(k, StartingBalance(k), genSt.schedule[k].interest)

(* simulateLoanBalance(amount, rate, payment, k) for the generator's       *)
(* inputs.                                                                 *)
SimulatedAfter(k) ==
    simulateLoanBalance(genArgs.amount, BiweeklyRateOf(genArgs),
                        genArgs.biweeklyPayment, k)

(* C22: in a schedule generated with one rate and no known-balance         *)
(* override, for every row k that is not a payoff row,                     *)
(* simulateLoanBalance(amount, rate, payment, k), when it is not the       *)
(* unpayable value, equals the row's remainingBalance.                     *)
C22_GeneratorAgreesWithSimulator ==
    (GenReturned /\ NoOverride) =>
        \A k \in 1..Len(genSt.schedule) :
            (OrdinaryRow(k) /\ SimulatedAfter(k) # Infinity) =>
                SimulatedAfter(k) = genSt.schedule[k].remainingBalance

(* A returned schedule whose first three rows are ordinary rows with       *)
(* interest, the rounding of the interest mattering, and the simulator     *)
(* giving a finite balance after three periods.                            *)
C22_Witness ==
    /\ GenReturned /\ NoOverride
    /\ Len(genSt.schedule) >= 4
    /\ \A k \in 1..3 : OrdinaryRow(k) /\ genSt.schedule[k].interest > 0
    /\ genSt.schedule[2].interest = genSt.schedule[3].interest
    /\ SimulatedAfter(3) # Infinity
    /\ SimulatedAfter(3) < genArgs.amount

----------------------------------------------------------------------------
(* Specification Spec: the App component.  The form submits LoanDetails    *)
(* (calculate), and the schedule table edits rows (set-amount-paid and     *)
(* toggle-paid).                                                           *)

(* What LoanForm submits: paymentsMade is a number (0 when left empty),    *)
(* the annual rate is 0 when left empty, which the form only accepts       *)
(* together with a known balance, and knownRemainingBalance is absent or   *)
(* positive.  Amounts in cents.                                            *)
FormDetails(amount, count, made, payment, annual, known) ==
    [amount |-> amount,
     paymentsCount |-> count,
     biweeklyPayment |-> payment,
     firstPaymentDate |-> GenFirstDate,
     annualInterestRate |-> Dy(annual, <<>>),
     paymentsMade |-> Some(made),
     knownRemainingBalance |-> known,
     preciseBiweeklyRate |-> None,
     previousDebt |-> None,
     initialPhaseBiweeklyRate |-> None]

CalcInputs ==
    { FormDetails(40, 3, 1, 14, 120, None),      \* annual rate supplied
      FormDetails(40, 3, 0, 14, 0, Some(28)),    \* no rate, nothing paid yet
      FormDetails(40, 3, 1, 14, 0, Some(28)),    \* known balance, two rates
      FormDetails(40, 3, 1, 14, 120, Some(28)),  \* the same, with a rate too
      FormDetails(60, 4, 2, 16, 0, Some(32)) }

AmountStrs ==
    { <<>>, <<"0">>, <<"0", ".", "0", "5">>, <<"0", ".", "1", "3">>,
      <<"0", ".", "5">>, <<"-", "1">> }

RowIds == 1..(MaxAppRows + 1)

Init ==
    /\ AppIdle
    /\ SimIdle
    /\ SolveIdle
    /\ DateIdle
    /\ GenIdle

(* The rows carry the marks of a fresh schedule: the first paymentsMade    *)
(* rows paid in full, the others pending with no amount.                   *)
FreshMarks(pays, made) ==
    \A k \in 1..Len(pays) :
        IF k <= made
        THEN pays[k].status = "paid" /\ pays[k].amountPaid = Some(pays[k].amount)
        ELSE pays[k].status = "pending" /\ pays[k].amountPaid = None

(* After a calculate, hist holds the submitted details (stage 0) and       *)
(* whether the rows it replaced had been edited since they were generated. *)
HistAfterCalculate(details) ==
    Some([id |-> 0,
          stage |-> 0,
          status |-> IF /\ loanDetails # None
                        /\ ~FreshMarks(payments, OrZero(loanDetails[1].paymentsMade))
                     THEN "edited" ELSE "fresh",
          details |-> details])

(* Mutant: the new rows keep the status and amountPaid of the old rows.    *)
CalculateKeepsEdits(details) ==
    /\ loanDetails' = Some(handleCalculate(details))
    /\ payments' =
          LET schedule == generatePaymentSchedule(loanDetails'[1])
          IN  [k \in 1..Len(schedule) |->
                 IF k <= Len(payments)
                 THEN [schedule[k] EXCEPT !.status = payments[k].status,
                                          !.amountPaid = payments[k].amountPaid]
                 ELSE schedule[k]]
    /\ hist' = HistAfterCalculate(details)
    /\ UNCHANGED <<simVars, solveVars, dateVars, genVars>>

Calculate(details) ==
    /\ loanDetails' = Some(handleCalculate(details))
    /\ payments' = generatePaymentSchedule(loanDetails'[1])
    /\ hist' = HistAfterCalculate(details)
    /\ UNCHANGED <<simVars, solveVars, dateVars, genVars>>

AmountPaidChange(paymentId, amountStr) ==
    /\ loanDetails # None
    /\ payments' = handleAmountPaidChange(payments, paymentId, amountStr)
    /\ hist' = None
    /\ UNCHANGED <<loanDetails, simVars, solveVars, dateVars, genVars>>

(* hist remembers a toggle of a row that was not paid (stage 1) and the    *)
(* toggle of the same row that directly follows it (stage 2), with the     *)
(* row's status and the summary's remaining balance before the first one.  *)
HistAfterToggle(paymentId) ==
    IF hist # None /\ hist[1].stage = 1 /\ hist[1].id = paymentId
    THEN Some([hist[1] EXCEPT !.stage = 2])
    ELSE IF \E k \in 1..Len(payments) :
                payments[k].id = paymentId /\ payments[k].status # "paid"
    THEN Some([id |-> paymentId,
               stage |-> 1,
               status |-> payments[paymentId].status,
               balance |-> summary(loanDetails, payments).remainingBalance])
    ELSE None

PaymentToggle(paymentId) ==
    /\ loanDetails # None
    /\ payments' = handlePaymentToggle(payments, paymentId)
    /\ hist' = HistAfterToggle(paymentId)
    /\ UNCHANGED <<loanDetails, simVars, solveVars, dateVars, genVars>>

Next ==
    \/ \E details \in CalcInputs : Calculate(details)
    \/ \E paymentId \in RowIds, amountStr \in AmountStrs :
          AmountPaidChange(paymentId, amountStr)
    \/ \E paymentId \in RowIds : PaymentToggle(paymentId)

Spec == Init /\ [][Next]_vars

LiveBalance == summary(loanDetails, payments).remainingBalance

ToggledTwice == hist # None /\ hist[1].stage = 2

(* C3 (as stated): for any row, toggle-paid making the row paid followed   *)
(* by toggle-paid making it pending leaves the summary's live remaining    *)
(* balance equal to its value before the first toggle.                     *)
C3_ToggleRoundTrip ==
    ToggledTwice => LiveBalance = hist[1].balance

(* C3 (amended): the same for any row whose status is pending before the   *)
(* first toggle.                                                           *)
C3_ToggleRoundTripFromPending ==
    (ToggledTwice /\ hist[1].status = "pending")
        => LiveBalance = hist[1].balance

(* A pending row that lies inside the walked range was toggled twice; the  *)
(* balance is positive and differs from the balance in between, which is   *)
(* the balance with the row paid.                                          *)
C3_Witness ==
    /\ ToggledTwice
    /\ hist[1].status = "pending"
    /\ hist[1].id < LastActiveRow(payments)
    /\ payments[hist[1].id].status = "pending"
    /\ ~RealLessThanInt(LiveBalance, 1)
    /\ LiveBalance
          # summary(loanDetails, handlePaymentToggle(payments, hist[1].id)).remainingBalance

----------------------------------------------------------------------------
(* set-amount-paid                                                         *)

(* The status the contract gives a row with the given amountPaid.          *)
StatusFor(amountPaid, amount) ==
    IF amountPaid # None /\ amountPaid[1] >= amount - 1 THEN "paid"
    ELSE IF amountPaid # None /\ amountPaid[1] > 0 THEN "partial"
    ELSE "pending"

SetAmountPaidPost(paymentId, amountStr) ==
    LET parsed == parseFloat(amountStr)
        expected == IF parsed # None /\ parsed[1] >= 0 THEN parsed ELSE None
    IN  /\ Len(payments') = Len(payments)
        /\ \A k \in 1..Len(payments) :
              payments[k].id = paymentId =>
                /\ payments'[k].amountPaid = expected
                /\ payments'[k].status = StatusFor(expected, payments[k].amount)

(* C11: every set-amount-paid(id, raw) step leaves the row with that id    *)
(* with amountPaid = the parsed number if raw parses to a number >= 0 and  *)
(* unset otherwise, and with status paid if amountPaid >= amount - 0.01,   *)
(* partial if 0 < amountPaid below that, pending otherwise, whatever the   *)
(* row's status was before.                                                *)
C11_SetAmountPaid ==
    [][\A paymentId \in RowIds, amountStr \in AmountStrs :
          AmountPaidChange(paymentId, amountStr)
              => SetAmountPaidPost(paymentId, amountStr)]_vars

(* One schedule holds a row paid at exactly amount - 0.01, a partial row   *)
(* and a pending row whose amountPaid is an entered 0.                     *)
C11_Witness ==
    /\ \E k \in 1..Len(payments) :
          /\ payments[k].status = "paid"
          /\ payments[k].amountPaid = Some(payments[k].amount - 1)
    /\ \E k \in 1..Len(payments) :
          /\ payments[k].status = "partial"
          /\ payments[k].amountPaid[1] < payments[k].amount - 1
    /\ \E k \in 1..Len(payments) :
          /\ payments[k].status = "pending"
          /\ payments[k].amountPaid = Some(0)

----------------------------------------------------------------------------
(* toggle-paid                                                             *)

TogglePaidPost(paymentId) ==
    /\ Len(payments') = Len(payments)
    /\ \A k \in 1..Len(payments) :
          payments[k].id = paymentId =>
            /\ payments[k].status = "paid" =>
                  /\ payments'[k].status = "pending"
                  /\ payments'[k].amountPaid = None
            /\ payments[k].status = "pending" =>
                  /\ payments'[k].status = "paid"
                  /\ payments'[k].amountPaid = Some(payments[k].amount)
            /\ payments'[k].status # "partial"

(* C12: every toggle-paid(id) step turns a paid row into a pending row     *)
(* with amountPaid unset and a pending row into a paid row with amountPaid *)
(* equal to its scheduled amount, and never leaves the row partial.        *)
C12_TogglePaid ==
    [][\A paymentId \in RowIds :
          PaymentToggle(paymentId) => TogglePaidPost(paymentId)]_vars

(* The last step toggled a pending row, which is now paid in full, and     *)
(* another row of the schedule is partial.                                 *)
C12_Witness ==
    /\ hist # None
    /\ hist[1].stage = 1
    /\ hist[1].status = "pending"
    /\ payments[hist[1].id].status = "paid"
    /\ payments[hist[1].id].amountPaid = Some(payments[hist[1].id].amount)
    /\ \E k \in 1..Len(payments) : payments[k].status = "partial"

----------------------------------------------------------------------------
(* The summary                                                             *)

(* The number of rows up to the last one that is not pending.              *)
WalkedRows ==
    LET active == {k \in 1..Len(payments) : payments[k].status # "pending"}
    IN  IF active = {} THEN 0 ELSE CHOOSE k \in active : \A j \in active : j <= k

(* What each of the first n rows actually paid, unset counting as 0.       *)
PaidAmounts(n) ==
    [k \in 1..n |-> IF payments[k].amountPaid = None THEN 0
                    ELSE payments[k].amountPaid[1]]

(* The stored periodic rates: the standard one, and the initial-phase one, *)
(* which is the standard one when none is stored.                          *)
StoredStandardRate ==
    IF loanDetails[1].preciseBiweeklyRate # None
    THEN loanDetails[1].preciseBiweeklyRate[1]
    ELSE BiweeklyOfAnnual(loanDetails[1].annualInterestRate)
StoredInitialRate ==
    IF loanDetails[1].initialPhaseBiweeklyRate # None
    THEN loanDetails[1].initialPhaseBiweeklyRate[1]
    ELSE StoredStandardRate

(* The rate of each of the first n rows: row k has 0-based index k - 1,    *)
(* which is at or before the pivot paymentsMade - 1 when k <= paymentsMade. *)
PivotRates(n) ==
    LET made == IF loanDetails[1].paymentsMade = None THEN 0
                ELSE loanDetails[1].paymentsMade[1]
    IN  [k \in 1..n |-> IF k <= made THEN StoredInitialRate
                        ELSE StoredStandardRate]

RECURSIVE AccruedFrom(_, _, _)
(* acc = <<k, b>>, b being the balance after the first k rows: the         *)
(* balance after all rows.                                                 *)
AccruedFrom(acc, rates, paid) ==
    IF acc[1] = Len(rates) THEN acc[2]
    ELSE LET k == acc[1] + 1
             b == acc[2]
         IN  AccruedFrom(<<k, RealSubInt(RealAdd(b, RealTimesRate(b, rates[k])),
                                         paid[k])>>,
                         rates, paid)

(* b + b x rate - paid, row after row, starting from the principal.        *)
Accrued(principal, rates, paid) ==
    AccruedFrom(<<0, RealOfInt(principal)>>, rates, paid)

(* The reported balance: 0 below 0.01.                                     *)
Reported(b) ==
    IF RealLessThanInt(b, 1) THEN RealNorm(RealOfInt(0)) ELSE RealNorm(b)

(* C15: the live remaining balance is the one obtained when every walked   *)
(* row with 0-based index <= paymentsMade - 1 accrues interest at the      *)
(* initial-phase rate and every later walked row at the standard rate      *)
(* (the same rate for all rows when no initial-phase rate is stored).      *)
C15_PivotRates ==
    loanDetails # None =>
        LiveBalance
          = Reported(Accrued(loanDetails[1].amount, PivotRates(WalkedRows),
                             PaidAmounts(WalkedRows)))

(* Two different rates are stored and the walk goes beyond the pivot row,  *)
(* ending on a positive balance.                                           *)
C15_Witness ==
    /\ loanDetails # None
    /\ loanDetails[1].initialPhaseBiweeklyRate # None
    /\ ~DyEq(StoredInitialRate, StoredStandardRate)
    /\ loanDetails[1].paymentsMade[1] >= 2
    /\ WalkedRows > loanDetails[1].paymentsMade[1]
    /\ ~RealLessThanInt(LiveBalance, 1)

(* The rows with their stored balance and principal fields wiped.          *)
WithoutStoredBalances ==
    [k \in 1..Len(payments) |->
        [payments[k] EXCEPT !.remainingBalance = 0, !.principal = 0]]

(* C16: the live remaining balance starts from the original principal and *)
(* replaces b by b + b x rate - amountPaid (unset as 0) for the rows up to *)
(* the last non-pending one; it is the principal when no row is            *)
(* non-pending, does not depend on the rows' stored remainingBalance and   *)
(* principal, and is reported as 0 when below 0.01, so never negative.     *)
C16_LiveBalance ==
    loanDetails # None =>
        LET walked == Accrued(loanDetails[1].amount, PivotRates(WalkedRows),
                              PaidAmounts(WalkedRows))
        IN  /\ RealLessThanInt(walked, 1)
                  => LiveBalance = RealNorm(RealOfInt(0))
            /\ ~RealLessThanInt(walked, 1) => LiveBalance = RealNorm(walked)
            /\ WalkedRows = 0
                  => LiveBalance = RealNorm(RealOfInt(loanDetails[1].amount))
            /\ summary(loanDetails, WithoutStoredBalances).remainingBalance
                  = LiveBalance
            /\ ~RealLessThanInt(LiveBalance, 0)

(* The walk covers a pending row with no amount and ends on a partial row  *)
(* that is not the last row of the schedule; the walked balance is         *)
(* positive and is not the stored balance of the row where the walk ends.  *)
C16_Witness ==
    /\ loanDetails # None
    /\ WalkedRows >= 2
    /\ WalkedRows < Len(payments)
    /\ payments[WalkedRows].status = "partial"
    /\ \E k \in 1..(WalkedRows - 1) :
          payments[k].status = "pending" /\ payments[k].amountPaid = None
    /\ ~RealLessThanInt(LiveBalance, 1)
    /\ LiveBalance # RealNorm(RealOfInt(payments[WalkedRows].remainingBalance))

RECURSIVE Missing(_)
(* Scheduled amount minus amount paid (unset as 0), summed over rows 1..n. *)
Missing(n) ==
    IF n = 0 THEN 0
    ELSE Missing(n - 1) + payments[n].amount - PaidAmounts(n)[n]

(* C17: the shortfall is max(0, sum over the rows up to the last           *)
(* non-pending one of scheduled amount - amountPaid): pending rows in the  *)
(* range count in full, later rows do not count, the floor applies to the  *)
(* total, and the shortfall is 0 when no row is non-pending.               *)
C17_Shortfall ==
    loanDetails # None =>
        /\ summary(loanDetails, payments).shortfall = Max(0, Missing(WalkedRows))
        /\ WalkedRows = 0 => summary(loanDetails, payments).shortfall = 0

(* A pending row inside the range counts in full, and the rows after the   *)
(* range, which are left out, would have made the total larger.            *)
C17_Witness ==
    /\ loanDetails # None
    /\ WalkedRows >= 2
    /\ WalkedRows < Len(payments)
    /\ \E k \in 1..(WalkedRows - 1) :
          payments[k].status = "pending" /\ payments[k].amountPaid = None
    /\ summary(loanDetails, payments).shortfall > 0
    /\ summary(loanDetails, payments).shortfall < Missing(Len(payments))

----------------------------------------------------------------------------
(* calculate                                                               *)

(* hist says that the last step was a calculate.                           *)
Calculated == hist # None /\ hist[1].stage = 0

(* C19: after every calculate with details D, whatever edits came before,  *)
(* the stored LoanDetails are the resolved D and the rows are the schedule *)
(* generated from the resolved D; no status or amountPaid entered before   *)
(* survives.                                                               *)
C19_RebuildWholesale ==
    Calculated =>
        /\ loanDetails = Some(handleCalculate(hist[1].details))
        /\ payments = generatePaymentSchedule(loanDetails[1])
        /\ FreshMarks(payments, hist[1].details.paymentsMade[1])

(* A calculate has just replaced rows that had been edited, by a schedule  *)
(* with rows generated paid and rows generated pending.                    *)
C19_Witness ==
    /\ Calculated
    /\ hist[1].status = "edited"
    /\ hist[1].details.paymentsMade[1] >= 1
    /\ Len(payments) > hist[1].details.paymentsMade[1]

(* The solver's answer for a loan of the given amount that must reach the  *)
(* target after the given number of periods.                               *)
Solved(amount, payment, periods, target) ==
    calculateAmortizationRate([amount |-> amount,
                               biweeklyPayment |-> payment,
                               paymentsCount |-> periods,
                               targetBalance |-> target])

(* C20: after a calculate whose details supply a known balance and         *)
(* paymentsMade > 0, the stored initial-phase rate is the solver's rate    *)
(* for amount -> known balance over paymentsMade periods, and the stored   *)
(* standard and annual rates are the solver's for known balance -> 0 over  *)
(* paymentsCount - paymentsMade periods.  Otherwise no initial-phase rate  *)
(* is stored; without an annual rate the stored rates are the solver's     *)
(* for amount -> 0 over paymentsCount periods, and a supplied annual rate  *)
(* is kept, no precise rate is stored and interest accrues at              *)
(* annual/100/24.                                                          *)
C20_RateResolution ==
    Calculated =>
        LET d == hist[1].details
            r == loanDetails[1]
            known == d.knownRemainingBalance
            made == d.paymentsMade[1]
        IN  IF known # None /\ known[1] # 0 /\ made > 0
            THEN LET past == Solved(d.amount, d.biweeklyPayment, made, known[1])
                     future == Solved(known[1], d.biweeklyPayment,
                                      d.paymentsCount - made, 0)
                 IN  /\ r.initialPhaseBiweeklyRate = Some(past.biweeklyRate)
                     /\ r.preciseBiweeklyRate = Some(future.biweeklyRate)
                     /\ r.annualInterestRate = future.annualRate
            ELSE IF DyIsZero(d.annualInterestRate)
            THEN LET whole == Solved(d.amount, d.biweeklyPayment,
                                     d.paymentsCount, 0)
                 IN  /\ r.initialPhaseBiweeklyRate = None
                     /\ r.preciseBiweeklyRate = Some(whole.biweeklyRate)
                     /\ r.annualInterestRate = whole.annualRate
            ELSE /\ r.initialPhaseBiweeklyRate = None
                 /\ r.preciseBiweeklyRate = None
                 /\ r.annualInterestRate = d.annualInterestRate
                 /\ DyEq(DyMulInt(BiweeklyRateOf(r), 24 * 100),
                         DyMulInt(d.annualInterestRate, RateUnitDen))
                 /\ payments[1].interest
                       = InterestOf(d.amount, BiweeklyRateOf(r))

(* A calculate with a known balance after two payments has stored two      *)
(* different rates, although an annual rate of 0 was submitted.            *)
C20_Witness ==
    /\ Calculated
    /\ hist[1].details.knownRemainingBalance # None
    /\ hist[1].details.paymentsMade[1] >= 2
    /\ loanDetails[1].initialPhaseBiweeklyRate # None
    /\ loanDetails[1].preciseBiweeklyRate # None
    /\ ~DyEq(loanDetails[1].initialPhaseBiweeklyRate[1],
             loanDetails[1].preciseBiweeklyRate[1])
    /\ ~DyIsZero(loanDetails[1].annualInterestRate)

(* The status of a row agrees with its amountPaid.                         *)
ConsistentRow(p) ==
    /\ p.status \in {"paid", "partial", "pending"}
    /\ p.status = "paid" =>
          p.amountPaid # None /\ p.amountPaid[1] >= p.amount - 1
    /\ p.status = "partial" =>
          /\ p.amountPaid # None
          /\ 0 < p.amountPaid[1]
          /\ p.amountPaid[1] < p.amount - 1
    /\ p.status = "pending" =>
          p.amountPaid = None \/ p.amountPaid = Some(0)

(* C23: in every payment sequence reached from a generated schedule by     *)
(* set-amount-paid and toggle-paid steps, a paid row has amountPaid set    *)
(* and >= amount - 0.01, a partial row has 0 < amountPaid < amount - 0.01, *)
(* and a pending row has amountPaid unset or 0.                            *)
C23_StatusAmountConsistency ==
    \A k \in 1..Len(payments) : ConsistentRow(payments[k])

(* Edited rows of all three kinds: a row generated paid that is now        *)
(* pending with no amount, an overpaid row that was generated pending, a   *)
(* partial row, and no row left as it was generated.                       *)
C23_Witness ==
    /\ loanDetails # None
    /\ Len(payments) >= 3
    /\ loanDetails[1].paymentsMade = Some(1)
    /\ payments[1].status = "pending" /\ payments[1].amountPaid = None
    /\ payments[2].status = "paid"
    /\ payments[2].amountPaid[1] > payments[2].amount
    /\ payments[3].status = "partial"

(* The fields of a row that the schedule table never edits.                *)
ScheduledPart(p) ==
    <<p.id, p.paymentNumber, p.paymentDate, p.amount, p.interest,
      p.principal, p.remainingBalance>>

(* What a step on the row with the given id leaves alone.                  *)
MutationFrame(paymentId) ==
    /\ loanDetails' = loanDetails
    /\ Len(payments') = Len(payments)
    /\ \A k \in 1..Len(payments) :
          IF payments[k].id = paymentId
          THEN /\ ScheduledPart(payments'[k]) = ScheduledPart(payments[k])
               /\ DOMAIN payments'[k] = DOMAIN payments[k]
          ELSE payments'[k] = payments[k]
    /\ (\A k \in 1..Len(payments) : payments[k].id # paymentId) =>
          payments' = payments

(* C24: a set-amount-paid(id, raw) or toggle-paid(id) step changes only    *)
(* the status and amountPaid of the row with that id: every other row,     *)
(* that row's id, period number, date, scheduled amount, interest,         *)
(* principal and remainingBalance, the number and order of the rows and    *)
(* the LoanDetails stay as they were, and with no row of that id the       *)
(* sequence stays as it was.                                               *)
C24_MutationFrame ==
    [][\A paymentId \in RowIds :
          (\/ \E amountStr \in AmountStrs :
                 AmountPaidChange(paymentId, amountStr)
           \/ PaymentToggle(paymentId))
             => MutationFrame(paymentId)]_vars

(* A partial row has just been toggled to paid while an overpaid row and   *)
(* a row with an amount of 0 keep their edits, and every row still has the *)
(* scheduled values it was generated with.                                 *)
C24_Witness ==
    /\ hist # None
    /\ hist[1].stage = 1
    /\ hist[1].status = "partial"
    /\ payments[hist[1].id].status = "paid"
    /\ \E k \in 1..Len(payments) :
          /\ k # hist[1].id
          /\ payments[k].status = "paid"
          /\ payments[k].amountPaid[1] > payments[k].amount
    /\ \E k \in 1..Len(payments) :
          /\ k # hist[1].id
          /\ payments[k].status = "pending"
          /\ payments[k].amountPaid = Some(0)
    /\ LET schedule == generatePaymentSchedule(loanDetails[1])
       IN  /\ Len(schedule) = Len(payments)
           /\ \A k \in 1..Len(payments) :
                 ScheduledPart(payments[k]) = ScheduledPart(schedule[k])

====
